---- MODULE Spec2Model ----
(***************************************************************************)
(* A model of ipipe's named-pipe abstraction: the POSIX Pipe of            *)
(* src/src/pipe_unix.rs (FIFO node, descriptors, direction-tagged handle   *)
(* slots, clone/drop life cycle) and the Windows Pipe of                   *)
(* src/src/pipe_windows.rs (connect/reconnect, Handle teardown).           *)
(*                                                                         *)
(* Every action is one whole call of the public interface, taken to its    *)
(* return, with the operating system's part of it: the descriptor table,  *)
(* the file-system nodes and the FIFO buffers are state, and the results   *)
(* of Windows system calls are inputs of the actions.                      *)
(***************************************************************************)
EXTENDS Integers, Sequences, FiniteSets, TLC

\* ------------------------------------------------------------------------
\* Bounds of the model
\* ------------------------------------------------------------------------
MaxPipes == 3        \* Pipe values ever constructed (open, with_name, clone)
MaxMasters == 2      \* ... of which open or with_name construct at most this many
MaxFds == 3          \* size of the process's descriptor table (RLIMIT_NOFILE)
MaxBuf == 2          \* capacity of a FIFO's kernel buffer, in bytes

Pipes == 1..MaxPipes
Fds == 3..(2 + MaxFds)
Insts == 1..(2 * MaxPipes)
Inodes == 1..(MaxPipes + 2)
WriteInputs == {<<1>>, <<2>>, <<1, 2>>}
ReadSizes == {1, 2}

\* The descriptor that Pipe p opens for its slot (1: handle1, 2: handle2).
\* A Pipe opens each of its slots at most once, so the pair names the open
\* file description for the whole run.
Inst(p, slot) == 2 * (p - 1) + slot

\* ------------------------------------------------------------------------
\* POSIX: file system and descriptors
\* ------------------------------------------------------------------------
S_IFIFO == 4096      \* 0o010000
\* the other file types of st_mode: 0o020000, 0o040000, 0o060000, 0o100000,
\* 0o140000
FileType == [chr |-> 8192, dir |-> 16384, blk |-> 24576, reg |-> 32768,
             sock |-> 49152]
NonFifoModes == {FileType[t] : t \in DOMAIN FileType}
\* stat() of the path fails with EACCES (a directory above it denies search)
StatDenied == 0 - 1

Names == {"test1", "test2"}
\* format!("/tmp/{}", name)
WithNamePath(name) == "/tmp/" \o name

\* The nodes that are there before the program runs, none of them a FIFO.
\* "/tmp/test1" is a free name.
Preset ==
    [q \in {"/", "/tmp", "/dev/null", "/dev/sda", "/tmp/sock", "/tmp/test2",
            "/root/x"} |->
        CASE q = "/" -> FileType.dir
          [] q = "/tmp" -> FileType.dir
          [] q = "/dev/null" -> FileType.chr
          [] q = "/dev/sda" -> FileType.blk
          [] q = "/tmp/sock" -> FileType.sock
          [] q = "/tmp/test2" -> FileType.reg
          [] q = "/root/x" -> StatDenied]
FreePaths == {"/tmp/test1"}
Paths == DOMAIN Preset \cup FreePaths

\* Path::parent() is None only for a root (or empty) path
HasParent(path) == path # "/"

VARIABLES
    fs,        \* path -> [mode, ino]: the node at the path (mode 0: none)
    nIno,      \* FIFO objects created so far
    fdTable,   \* descriptor number -> the open file description on it, or 0
    instIno,   \* open file description -> the FIFO object it was opened on
    buf,       \* FIFO object -> bytes written and not yet read
    pipes,     \* Pipe value -> its fields and life-cycle state
    plast,     \* what the last POSIX call did (history)
    wrote,     \* Pipe value -> bytes its writes were told were accepted
    readLog,   \* Pipe value -> bytes its reads returned
    wpipes,    \* Windows: Pipe value -> its fields and life-cycle state
    wdesc,     \* Windows: descriptor -> [closes, disconnects, flushes]
    wlast,     \* what the last Windows call did (history)
    registry,  \* PIPES: name -> the Pipe value in the entry's Mutex, or 0
    retired,   \* Pipe values taken out of PIPES and not yet deallocated
    busy,      \* thread -> the call on a Pipe it is in the middle of
    rlast,     \* what the last registry call did (history)
    regLast,   \* name -> the last call that changed its entry (history)
    fifos,     \* Fifo value -> its fields and life-cycle state
    flast,     \* what the last Fifo call did (history)
    avail,     \* Windows: the listener instance of the path: none, free, taken
    conn       \* Windows: the position of a write inside create_pipe

posixVars == <<fs, nIno, fdTable, instIno, buf, pipes, plast>>
logVars == <<wrote, readLog>>
winVars == <<wpipes, wdesc, wlast>>
regVars == <<registry, retired, busy, rlast, regLast>>
fifoVars == <<fifos, flast>>
waitVars == <<avail, conn>>
sideVars == <<regVars, fifoVars, waitVars>>
vars == <<fs, nIno, fdTable, instIno, buf, pipes, plast, wrote, readLog,
          wpipes, wdesc, wlast, registry, retired, busy, rlast, regLast,
          fifos, flast, avail, conn>>

\* Handle (an enum of lib.rs): Arc(Arc<RawFd>, HandleType) or
\* Weak(Weak<RawFd>, HandleType); None is an empty Option<Handle>.
NoHandle == [k |-> "None", raw |-> 0, inst |-> 0, ty |-> "Unknown"]
WeakNew == [k |-> "Weak", raw |-> 0, inst |-> 0, ty |-> "Unknown"]
ArcHandle(fd, i, ty) == [k |-> "Arc", raw |-> fd, inst |-> i, ty |-> ty]

\* Handle::raw(): the descriptor of an Arc; Weak::new() upgrades to nothing
\* (0 stands for None)
Raw(h) == IF h.k = "Arc" THEN h.raw ELSE 0

NoPipe == [st |-> "unused", handle1 |-> NoHandle, handle2 |-> NoHandle,
           path |-> "", is_slave |-> FALSE, delete |-> "None", master |-> 0,
           gen |-> 0, opens |-> 0]

NoNode == [mode |-> 0, ino |-> 0]

\* stat(path)
Stat(f, path) ==
    IF f[path].mode = 0 THEN [ok |-> FALSE, err |-> "ENOENT", mode |-> 0]
    ELSE IF f[path].mode = StatDenied
         THEN [ok |-> FALSE, err |-> "EACCES", mode |-> 0]
         ELSE [ok |-> TRUE, err |-> "", mode |-> f[path].mode]

\* a variant: the file-type bits compared without the mask
IsFifoMode_NoMask(mode) == mode \div S_IFIFO # 0

\* file_stat.st_mode & SFlag::S_IFIFO.bits() != 0
IsFifoMode(mode) == (mode \div S_IFIFO) % 2 # 0

\* the lowest free descriptor number, as open(2) returns it (0: EMFILE)
LowestFree(table) ==
    LET free == {n \in Fds : table[n] = 0}
    IN IF free = {} THEN 0 ELSE CHOOSE n \in free : \A m \in free : n <= m

\* whether open file description i is still open
InstOpen(table, i) == \E n \in Fds : table[n] = i

\* The kernel frees a FIFO's buffer when its last descriptor is closed.
Discard(table, ino, b) ==
    [i \in Inodes |->
        IF \E n \in Fds : table[n] # 0 /\ ino[table[n]] = i
        THEN b[i] ELSE <<>>]

\* close(fd): the number is freed whatever description is on it
CloseFd(table, fd) == IF fd \in Fds THEN [table EXCEPT ![fd] = 0] ELSE table

\* Pipe::init_handle(path) for the description i
InitHandle(f, table, ino, path, i) ==
    LET fail(e) == [ok |-> FALSE, err |-> e, handle |-> NoHandle,
                    table |-> table, ino |-> ino]
        s == Stat(f, path)
        fd == LowestFree(table)
    IN IF ~HasParent(path) THEN fail("InvalidPath")
       ELSE IF s.ok /\ ~IsFifoMode(s.mode) THEN fail("ENOENT")
       ELSE IF ~s.ok THEN fail(s.err)
       ELSE IF fd = 0 THEN fail("EMFILE")
       ELSE [ok |-> TRUE, err |-> "",
             handle |-> ArcHandle(fd, i, "Unknown"),
             table |-> [table EXCEPT ![fd] = i],
             ino |-> [ino EXCEPT ![i] = f[path].ino]]

\* Pipe::init_handle_type(handle_type) on the fields pp of Pipe p: the fields
\* afterwards, the descriptor to use (or the error), the descriptor table
HandleTypeResult(ok, err, pp, h, table, ino, opened) ==
    [ok |-> ok, err |-> err, pipe |-> pp, fd |-> Raw(h), inst |-> h.inst,
     table |-> table, ino |-> ino, opened |-> opened]

\* a variant: handle1 is retagged on every call
Classify_Always(h, ty) == [h EXCEPT !.ty = ty]

\* if handle1 is Unknown, set_type(handle_type)
Classify(h, ty) == IF h.ty = "Unknown" THEN [h EXCEPT !.ty = ty] ELSE h

InitHandleType(p, pp, ty, f, table, ino) ==
    LET h1 == Classify(pp.handle1, ty)
        p1 == [pp EXCEPT !.handle1 = h1]
        r == InitHandle(f, table, ino, pp.path, Inst(p, 2))
        h2 == [r.handle EXCEPT !.ty = ty]
        sel(q, h, t, i, o) ==
            IF Raw(h) = 0
            THEN HandleTypeResult(FALSE, "EBADF", q, NoHandle, t, i, o)
            ELSE HandleTypeResult(TRUE, "", q, h, t, i, o)
    IN IF pp.handle1.k = "None"
       THEN HandleTypeResult(FALSE, "panic", pp, NoHandle, table, ino, {})
       ELSE IF h1.ty = ty THEN sel(p1, h1, table, ino, {})
       ELSE IF pp.handle2.k # "None"
            THEN sel(p1, pp.handle2, table, ino, {})
       ELSE IF ~r.ok
            THEN HandleTypeResult(FALSE, r.err, p1, NoHandle, table, ino, {})
       ELSE sel([p1 EXCEPT !.handle2 = h2, !.opens = @ + 1], h2, r.table,
                r.ino, {Inst(p, 2)})

\* ------------------------------------------------------------------------
\* POSIX: the calls
\* ------------------------------------------------------------------------
PIdle == [op |-> "none", p |-> 0, ok |-> TRUE, n |-> 0, err |-> "",
          opened |-> FALSE]

\* Pipe values are constructed into the lowest unused slot
Fresh(p) == pipes[p].st = "unused"
            /\ \A q \in Pipes : q < p => pipes[q].st # "unused"
Live(p) == pipes[p].st = "live"

\* the memory of a dropped Pipe value is gone (kept for the record: master,
\* the Pipe that open returned and this one descends from by gen clones)
Dealloc(pp) ==
    [NoPipe EXCEPT !.st = "dropped", !.master = pp.master, !.gen = pp.gen]

\* Pipe::open(path, on_cleanup), up to the construction of the Pipe
OpenOutcome(p, path) ==
    LET s == Stat(fs, path)
        fail(e) == [ok |-> FALSE, err |-> e, fs |-> fs, nIno |-> nIno,
                    handle |-> NoHandle, table |-> fdTable, ino |-> instIno]
        made == ~s.ok
        f1 == IF made
              THEN [fs EXCEPT ![path] = [mode |-> S_IFIFO, ino |-> nIno + 1]]
              ELSE fs
        r == InitHandle(f1, fdTable, instIno, path, Inst(p, 1))
    IN IF ~HasParent(path) THEN fail("InvalidPath")
       ELSE IF s.ok /\ ~IsFifoMode(s.mode) THEN fail("InvalidPath")
       ELSE IF ~s.ok /\ s.err # "ENOENT" THEN fail(s.err)
       ELSE [ok |-> r.ok, err |-> r.err, fs |-> f1,
             nIno |-> IF made THEN nIno + 1 ELSE nIno,
             handle |-> r.handle, table |-> r.table, ino |-> r.ino]

Open(p, path, policy) ==
    /\ Fresh(p)
    /\ \E o \in {OpenOutcome(p, path)} :
          /\ o.ok => Cardinality({q \in Pipes : pipes[q].master = q})
                        < MaxMasters
          /\ fs' = o.fs
          /\ nIno' = o.nIno
          /\ fdTable' = o.table
          /\ instIno' = o.ino
          /\ pipes' = IF o.ok
                      THEN [pipes EXCEPT ![p] =
                              [st |-> "live", handle1 |-> o.handle,
                               handle2 |-> NoHandle, path |-> path,
                               is_slave |-> FALSE, delete |-> policy,
                               master |-> p, gen |-> 0, opens |-> 1]]
                      ELSE pipes
          /\ plast' = [PIdle EXCEPT !.op = "open", !.p = p, !.ok = o.ok,
                                      !.err = o.err, !.opened = o.ok]
    /\ UNCHANGED buf

\* Pipe::with_name(name)
WithName(p, name) == Open(p, WithNamePath(name), "NoDelete")

\* Handle::clone (derived in lib.rs): the same Arc, the tag copied
CloneHandle(h) == h

\* a variant: a field-by-field clone, as #[derive(Clone)] would make it
ClonePipe_Derived(pp) ==
    [pp EXCEPT !.handle1 = CloneHandle(pp.handle1),
               !.handle2 = CloneHandle(pp.handle2),
               !.gen = pp.gen + 1, !.opens = 0]

\* <Pipe as Clone>::clone
ClonePipe(pp) ==
    [st |-> "live", handle1 |-> CloneHandle(pp.handle1),
     handle2 |-> CloneHandle(pp.handle2), path |-> pp.path,
     is_slave |-> TRUE, delete |-> "NoDelete", master |-> pp.master,
     gen |-> pp.gen + 1, opens |-> 0]

Clone(p, q) ==
    /\ Live(p)
    /\ Fresh(q)
    /\ pipes' = [pipes EXCEPT ![q] = ClonePipe(pipes[p])]
    /\ plast' = [PIdle EXCEPT !.op = "clone", !.p = q]
    /\ UNCHANGED <<fs, nIno, fdTable, instIno, buf>>

\* <Pipe as Drop>::drop on the fields pp: the fields when drop returns, the
\* file system, and whether remove_file(..).unwrap() panicked.  A Handle has
\* no Drop on POSIX: releasing the Arcs closes no descriptor.
DropPipe(pp, f) ==
    LET del == ~pp.is_slave /\ pp.delete = "Delete"
        there == f[pp.path].mode # 0
    IN [pipe |-> IF ~pp.is_slave
                 THEN [pp EXCEPT !.handle1 = WeakNew, !.handle2 = NoHandle,
                                 !.st = "dropped"]
                 ELSE [pp EXCEPT !.st = "dropped"],
        fs |-> IF del /\ there THEN [f EXCEPT ![pp.path] = NoNode] ELSE f,
        panic |-> del /\ ~there]

Drop(p) ==
    /\ Live(p)
    /\ \E d \in {DropPipe(pipes[p], fs)} :
          /\ pipes' = [pipes EXCEPT ![p] = Dealloc(d.pipe)]
          /\ fs' = d.fs
          /\ plast' = [PIdle EXCEPT !.op = "drop", !.p = p,
                         !.ok = ~d.panic,
                         !.err = IF d.panic THEN "panic" ELSE ""]
    /\ UNCHANGED <<nIno, fdTable, instIno, buf>>

\* the drop of the temporary File::from_raw_fd(handle) when the call's
\* statement ends: File owns the descriptor and closes it
FileTempDrop(table, fd) == CloseFd(table, fd)

Min(a, b) == IF a <= b THEN a ELSE b

\* <Pipe as Write>::write(bytes).  A write into a full FIFO blocks: the action
\* is the call that returns.
Write(p, bytes) ==
    /\ Live(p)
    /\ \E r \in {InitHandleType(p, pipes[p], "Write", fs, fdTable,
                                instIno)} :
       LET i == IF r.ok THEN r.table[r.fd] ELSE 0
           ino == IF i # 0 THEN r.ino[i] ELSE 0
           t2 == IF r.ok THEN FileTempDrop(r.table, r.fd) ELSE r.table
           b1 == IF i # 0 THEN [buf EXCEPT ![ino] = @ \o bytes] ELSE buf
       IN /\ i # 0 => Len(buf[ino]) + Len(bytes) <= MaxBuf
          /\ pipes' = [pipes EXCEPT ![p] = r.pipe]
          /\ fdTable' = t2
          /\ instIno' = r.ino
          /\ buf' = Discard(t2, r.ino, b1)
          /\ plast' = [PIdle EXCEPT !.op = "write", !.p = p,
                         !.opened = r.opened # {},
                         !.ok = r.ok /\ i # 0,
                         !.n = IF r.ok /\ i # 0 THEN Len(bytes) ELSE 0,
                         !.err = IF ~r.ok THEN r.err
                                 ELSE IF i = 0 THEN "EBADF" ELSE ""]
    /\ UNCHANGED <<fs, nIno>>

\* <Pipe as Write>::flush().  tcflush on a FIFO is ENOTTY.
Flush(p) ==
    /\ Live(p)
    /\ \E r \in {InitHandleType(p, pipes[p], "Write", fs, fdTable,
                                instIno)} :
       LET i == IF r.ok THEN r.table[r.fd] ELSE 0
           t2 == IF r.ok THEN FileTempDrop(r.table, r.fd) ELSE r.table
       IN /\ pipes' = [pipes EXCEPT ![p] = r.pipe]
          /\ fdTable' = t2
          /\ instIno' = r.ino
          /\ buf' = Discard(t2, r.ino, buf)
          /\ plast' = [PIdle EXCEPT !.op = "flush", !.p = p,
                         !.opened = r.opened # {},
                         !.ok = FALSE,
                         !.err = IF ~r.ok THEN r.err
                                 ELSE IF i = 0 THEN "EBADF" ELSE "ENOTTY"]
    /\ UNCHANGED <<fs, nIno>>

\* <Pipe as Read>::read(bytes) into a buffer of n bytes.  A read of an empty
\* FIFO blocks (the reader holds the FIFO open for writing too, so there is
\* no end of file): the action is the call that returns.
Read(p, n) ==
    /\ Live(p)
    /\ \E r \in {InitHandleType(p, pipes[p], "Read", fs, fdTable,
                                instIno)} :
       LET i == IF r.ok THEN r.table[r.fd] ELSE 0
           ino == IF i # 0 THEN r.ino[i] ELSE 0
           k == IF i # 0 THEN Min(n, Len(buf[ino])) ELSE 0
       IN /\ i # 0 => buf[ino] # <<>>
          /\ pipes' = [pipes EXCEPT ![p] = r.pipe]
          /\ fdTable' = r.table
          /\ instIno' = r.ino
          /\ buf' = IF i # 0
                    THEN [buf EXCEPT ![ino] = SubSeq(@, k + 1, Len(@))]
                    ELSE buf
          /\ plast' = [PIdle EXCEPT !.op = "read", !.p = p,
                         !.opened = r.opened # {},
                         !.ok = r.ok /\ i # 0,
                         !.n = k,
                         !.err = IF ~r.ok THEN r.err
                                 ELSE IF i = 0 THEN "EBADF" ELSE ""]
    /\ UNCHANGED <<fs, nIno>>

\* Pipe::close(self): closes handle1's descriptor, then self is dropped
Close(p) ==
    /\ Live(p)
    /\ \E d \in {DropPipe(pipes[p], fs)} :
       LET h == pipes[p].handle1
           fd == Raw(h)
           t2 == CloseFd(fdTable, fd)
           bad == fd # 0 /\ fdTable[fd] = 0
       IN /\ pipes' = [pipes EXCEPT ![p] = Dealloc(d.pipe)]
          /\ fs' = d.fs
          /\ fdTable' = t2
          /\ buf' = Discard(t2, instIno, buf)
          /\ plast' = [PIdle EXCEPT !.op = "close", !.p = p,
                         !.ok = h.k # "None" /\ ~bad /\ ~d.panic,
                         !.err = IF h.k = "None" \/ d.panic THEN "panic"
                                 ELSE IF bad THEN "EBADF" ELSE ""]
    /\ UNCHANGED <<nIno, instIno>>

\* ------------------------------------------------------------------------
\* Windows: src/src/pipe_windows.rs
\* ------------------------------------------------------------------------
MaxWinPipes == 2     \* Pipe values ever constructed (open, with_name, clone)
MaxDesc == 2         \* descriptors the OS hands out in one run

WPipes == 1..MaxWinPipes

\* shared::winerror
ERROR_NO_DATA == 232
ERROR_PIPE_NOT_CONNECTED == 233
\* other codes GetLastError can give: ERROR_ACCESS_DENIED, ERROR_INVALID_HANDLE,
\* ERROR_BROKEN_PIPE, ERROR_SEM_TIMEOUT, ERROR_PIPE_BUSY, ERROR_PIPE_CONNECTED
OsError == [denied |-> 5, invalid |-> 6, broken |-> 109, timeout |-> 121,
            busy |-> 231, connected |-> 535]

\* what the OS answers to each call (0: the call succeeded)
ConnectResults == {"ok", "wait", "open", "mode"}
ListenResults == {"ok", "fail"}
HandshakeResults == {0, ERROR_PIPE_NOT_CONNECTED, OsError.connected}
ReadResults == {0, ERROR_PIPE_NOT_CONNECTED, OsError.broken}
WriteResults == {0, ERROR_NO_DATA, OsError.broken}
FlushResults == {0, OsError.broken}
DisconnectResults == {0, OsError.invalid}

\* what the OS answers during one write: to the connection, to WriteFile, to
\* the connection and the WriteFile of a second attempt (an answer to a call
\* that comes after a failure with a code other than ERROR_NO_DATA is the
\* first value of its set)
WriteAnswers ==
    {a \in ConnectResults \X WriteResults \X ConnectResults \X WriteResults :
        /\ a[1] # "ok" => a[2] = 0
        /\ a[2] # ERROR_NO_DATA => a[3] = "ok"
        /\ a[3] # "ok" => a[4] = 0}

\* format!(r"\\.\pipe\{}", name)
WinWithNamePath(name) == "\\\\.\\pipe\\" \o name
WinNames == {"test1"}
\* the paths Pipe::open is called with
WinPaths == {"\\\\.\\pipe\\open"}

\* Option<Handle>: None, Handle::Arc(Arc<HANDLE>, ty), Handle::Weak(Weak, ty)
WNoHandle == [k |-> "None", desc |-> 0, ty |-> "Client"]
WArc(d, ty) == [k |-> "Arc", desc |-> d, ty |-> ty]
WWeak(ty) == [k |-> "Weak", desc |-> 0, ty |-> ty]

\* Handle::raw(), 0 for None: only an Arc handle has a descriptor
WRaw(h) == IF h.k = "Arc" THEN h.desc ELSE 0

\* Handle::set_type
SetType(h, ty) == [h EXCEPT !.ty = ty]

WNoPipe == [st |-> "unused", handle |-> WNoHandle, path |-> ""]

\* a descriptor the OS handed out, and what has been done to it since
NewDesc(server, first, path) ==
    [server |-> server, first |-> first, path |-> path, closes |-> 0,
     discs |-> 0, shaken |-> FALSE]

\* one call to the OS on descriptor d (0: no descriptor) and its result
Call(c, d, res) == [c |-> c, d |-> d, res |-> res]

Count(calls, c, d) ==
    Cardinality({i \in 1..Len(calls) : calls[i].c = c /\ calls[i].d = d})

\* the descriptors after the calls: CloseHandle and DisconnectNamedPipe counted
Account(ds, calls) ==
    [d \in DOMAIN ds |->
        [ds[d] EXCEPT !.closes = @ + Count(calls, "CloseHandle", d),
                      !.discs = @ + Count(calls, "DisconnectNamedPipe", d),
                      !.shaken = @ \/ Count(calls, "ConnectNamedPipe", d) > 0]]

\* a variant: the teardown stops at the first step that fails
Teardown_FailFast(h, fr, dr) ==
    IF h.k # "Arc" THEN <<>>
    ELSE IF fr # 0 THEN <<Call("FlushFileBuffers", h.desc, fr)>>
    ELSE IF h.ty = "Server" /\ dr # 0
    THEN <<Call("FlushFileBuffers", h.desc, fr),
           Call("DisconnectNamedPipe", h.desc, dr)>>
    ELSE <<Call("FlushFileBuffers", h.desc, fr)>>
         \o (IF h.ty = "Server"
             THEN <<Call("DisconnectNamedPipe", h.desc, dr)>> ELSE <<>>)
         \o <<Call("CloseHandle", h.desc, 0)>>

\* impl Drop for Handle: every Handle::Arc value dropped flushes, disconnects
\* if tagged Server, and closes; the results (fr of the flush, dr of the
\* disconnect) are not looked at
Teardown(h, fr, dr) ==
    IF h.k = "Arc"
    THEN <<Call("FlushFileBuffers", h.desc, fr)>>
         \o (IF h.ty = "Server"
             THEN <<Call("DisconnectNamedPipe", h.desc, dr)>> ELSE <<>>)
         \o <<Call("CloseHandle", h.desc, 0)>>
    ELSE <<>>

\* the drop of a Handle inside a call, when every step succeeds
DropHandle(h) == Teardown(h, 0, 0)

WResult(ok, n, err, h, ds, calls) ==
    [ok |-> ok, n |-> n, err |-> err, handle |-> h, ds |-> ds,
     calls |-> calls]

\* Pipe::create_pipe: WaitNamedPipeW (a wait that fails with code 2 is
\* repeated: the call has not returned), CreateFileW, SetNamedPipeHandleState.
\* When the last one fails the descriptor is in no Handle and is never closed.
CreatePipe(ds, path, c) ==
    LET d == Len(ds) + 1
        wait == Call("WaitNamedPipeW", 0,
                     IF c = "wait" THEN OsError.timeout ELSE 0)
        open == Call("CreateFileW", IF c = "open" THEN 0 ELSE d,
                     IF c = "open" THEN OsError.busy ELSE 0)
        mode == Call("SetNamedPipeHandleState", d,
                     IF c = "mode" THEN OsError.denied ELSE 0)
        made == Append(ds, NewDesc(FALSE, FALSE, path))
    IN  CASE c = "wait" ->
                WResult(FALSE, 0, OsError.timeout, WNoHandle, ds, <<wait>>)
          [] c = "open" ->
                WResult(FALSE, 0, OsError.busy, WNoHandle, ds, <<wait, open>>)
          [] c = "mode" ->
                WResult(FALSE, 0, OsError.denied, WNoHandle, made,
                        <<wait, open, mode>>)
          [] OTHER ->
                WResult(TRUE, 0, 0, WArc(d, "Client"), made,
                        <<wait, open, mode>>)

\* an instance of the pipe at path that is still open
HasInstance(ds, path) ==
    \E d \in DOMAIN ds :
        ds[d].server /\ ds[d].path = path /\ ds[d].closes = 0

\* CreateNamedPipeW as create_listener calls it, with and without the flag
ListenerCall(first) ==
    IF first THEN "CreateNamedPipeW|FILE_FLAG_FIRST_PIPE_INSTANCE"
    ELSE "CreateNamedPipeW"

\* Pipe::create_listener: CreateNamedPipeW; with FILE_FLAG_FIRST_PIPE_INSTANCE
\* the OS refuses when the pipe already has an instance
CreateListener(ds, path, first, l) ==
    LET d == Len(ds) + 1
        name == ListenerCall(first)
        err == IF first /\ HasInstance(ds, path) THEN OsError.denied
               ELSE IF l = "fail" THEN OsError.busy ELSE 0
    IN  IF err # 0
        THEN WResult(FALSE, 0, err, WNoHandle, ds,
                     <<Call(name, 0, err)>>)
        ELSE WResult(TRUE, 0, 0, WArc(d, "Server"),
                     Append(ds, NewDesc(TRUE, first, path)),
                     <<Call(name, d, 0)>>)

\* Pipe::init_writer
InitWriter(h, ds, path, c) ==
    IF h.k = "None" THEN CreatePipe(ds, path, c)
    ELSE WResult(TRUE, 0, 0, h, ds, <<>>)

\* impl Write for Handle :: write (the caller's buffer holds one byte)
HandleWrite(h, ds, w) ==
    IF h.k # "Arc"
    THEN WResult(FALSE, 0, ERROR_PIPE_NOT_CONNECTED, h, ds, <<>>)
    ELSE WResult(w = 0, IF w = 0 THEN 1 ELSE 0, w, h, ds,
                 <<Call("WriteFile", h.desc, w)>>)

\* impl Write for Handle :: flush
HandleFlush(h, ds, f) ==
    IF h.k # "Arc"
    THEN WResult(FALSE, 0, ERROR_PIPE_NOT_CONNECTED, h, ds, <<>>)
    ELSE WResult(f = 0, 0, f, h, ds, <<Call("FlushFileBuffers", h.desc, f)>>)

\* impl Read for Handle :: read, the match on ERROR_PIPE_NOT_CONNECTED
ReadEof(err) == err = ERROR_PIPE_NOT_CONNECTED

\* impl Read for Handle :: read (ReadFile gives one byte when it succeeds)
HandleRead(h, ds, r) ==
    IF h.k # "Arc" THEN WResult(TRUE, 0, 0, h, ds, <<>>)
    ELSE LET call == <<Call("ReadFile", h.desc, r)>>
         IN  IF r = 0 THEN WResult(TRUE, 1, 0, h, ds, call)
             ELSE IF ReadEof(r) THEN WResult(TRUE, 0, 0, h, ds, call)
             ELSE WResult(FALSE, 0, r, h, ds, call)

\* a variant: the retry arm taken on every error
RetryOn_AnyError(err) == TRUE

\* impl Write for Pipe :: write, the guard of the retry arm
RetryOn(err) == err = ERROR_NO_DATA

Joined(a, b) == [b EXCEPT !.calls = a.calls \o @]

\* impl Write for Pipe :: write
WriteOutcome(h0, ds, path, c1, w1, c2, w2) ==
    LET a == InitWriter(h0, ds, path, c1)
        r1 == HandleWrite(a.handle, a.ds, w1)
        b == InitWriter(WNoHandle, a.ds, path, c2)
        r2 == HandleWrite(b.handle, b.ds, w2)
        upTo1 == a.calls \o r1.calls \o DropHandle(a.handle)
    IN  IF ~a.ok THEN [a EXCEPT !.handle = h0]
        ELSE IF r1.ok THEN Joined(a, r1)
        ELSE IF ~RetryOn(r1.err) THEN Joined(a, r1)
        ELSE IF ~b.ok THEN [b EXCEPT !.calls = upTo1 \o @]
        ELSE [r2 EXCEPT !.calls = upTo1 \o b.calls \o @]

\* the answers write does not ask the OS for are left at their first value
WriteAsked(h0, ds, path, c1, w1, c2, w2) ==
    LET a == InitWriter(h0, ds, path, c1)
        r1 == HandleWrite(a.handle, a.ds, w1)
        b == InitWriter(WNoHandle, a.ds, path, c2)
        again == a.ok /\ ~r1.ok /\ RetryOn(r1.err)
    IN  /\ h0.k # "None" => c1 = "ok"
        /\ ~a.ok \/ a.handle.k # "Arc" => w1 = 0
        /\ ~again => c2 = "ok"
        /\ ~again \/ ~b.ok => w2 = 0

\* a variant: the handle kept by a flush that succeeded
FlushDiscards_Keep(h) == h

\* impl Write for Pipe :: flush, self.handle = None
FlushDiscards(h) == WNoHandle

\* impl Write for Pipe :: flush
FlushOutcome(h0, ds, path, c, f) ==
    LET r == HandleFlush(h0, ds, f)
        left == FlushDiscards(h0)
    IN  IF h0.k = "None" THEN InitWriter(h0, ds, path, c)
        ELSE IF ~r.ok THEN r
        ELSE [r EXCEPT !.handle = left,
                       !.calls = @ \o (IF left = h0 THEN <<>>
                                       ELSE DropHandle(h0))]

\* the answers flush does not ask the OS for are left at their first value
FlushAsked(h0, c, f) ==
    /\ h0.k # "None" => c = "ok"
    /\ h0.k # "Arc" => f = 0

\* a variant: every handshake error returned
HandshakeBenign_None(err) == FALSE

\* impl Read for Pipe :: read, the handshake errors that are not returned
HandshakeBenign(err) == err = ERROR_PIPE_NOT_CONNECTED

\* a variant: the listener of a handshake that failed is left open
Abandon_Leak(h) == <<>>

\* impl Read for Pipe :: read, `Err(..)?` inside either arm: the function
\* returns while `listener` is a local that was not stored, so it is dropped
Abandon(h) == DropHandle(h)

\* impl Read for Pipe :: read, either arm that makes a listener:
\* create_listener, then ConnectNamedPipe; an error that is returned drops
\* the listener
Listen(ds, path, first, l, hs) ==
    LET c == CreateListener(ds, path, first, l)
        shake == <<Call("ConnectNamedPipe", c.handle.desc, hs)>>
    IN  IF ~c.ok THEN c
        ELSE IF hs # 0 /\ ~HandshakeBenign(hs)
        THEN WResult(FALSE, 0, hs, WNoHandle, c.ds,
                     c.calls \o shake \o Abandon(c.handle))
        ELSE [c EXCEPT !.calls = @ \o shake]

\* a variant: every listener is asked for as the first instance
FirstFlag_Always(h) == TRUE

\* impl Read for Pipe :: read, the `first` argument of create_listener: true
\* in the None arm, false in the arm of a handle without a descriptor
FirstFlag(h) == h.k = "None"

\* impl Read for Pipe :: read (the loop body runs once: every arm of the
\* final match breaks or returns)
ReadOutcome(h0, ds, path, l, hs, r) ==
    LET a == IF h0.k = "Arc" THEN WResult(TRUE, 0, 0, h0, ds, <<>>)
             ELSE Listen(ds, path, FirstFlag(h0), l, hs)
        rr == HandleRead(a.handle, a.ds, r)
    IN  IF ~a.ok THEN [a EXCEPT !.handle = h0]
        ELSE Joined(a, rr)

\* the answers read does not ask the OS for are left at their first value
ReadAsked(h0, ds, path, l, hs, r) ==
    LET c == CreateListener(ds, path, FirstFlag(h0), l)
        a == Listen(ds, path, FirstFlag(h0), l, hs)
    IN  /\ h0.k = "Arc" \/ (FirstFlag(h0) /\ HasInstance(ds, path))
              => l = "ok"
        /\ h0.k = "Arc" \/ ~c.ok => hs = 0
        /\ h0.k # "Arc" /\ ~a.ok => r = 0

\* Pipe::close
CloseOutcome(h0, ds, dr) ==
    LET explicit == <<Call("DisconnectNamedPipe", h0.desc, dr)>>
    IN  IF h0.k = "None" THEN WResult(TRUE, 0, 0, WNoHandle, ds, <<>>)
        ELSE IF h0.ty # "Server"
        THEN WResult(TRUE, 0, 0, WNoHandle, ds, DropHandle(h0))
        ELSE IF h0.k # "Arc"
        THEN WResult(TRUE, 0, 0, WNoHandle, ds,
                     DropHandle(SetType(h0, "Client")))
        ELSE IF dr # 0
        THEN WResult(FALSE, 0, dr, WNoHandle, ds, explicit \o DropHandle(h0))
        ELSE WResult(TRUE, 0, 0, WNoHandle, ds,
                     explicit \o DropHandle(SetType(h0, "Client")))

WIdle == [op |-> "none", p |-> 0, ok |-> TRUE, n |-> 0, err |-> 0,
          calls |-> <<>>, before |-> WNoHandle]

WFresh(p) ==
    /\ wpipes[p].st = "unused"
    /\ \A q \in WPipes : q < p => wpipes[q].st # "unused"

WLive(p) == wpipes[p].st = "live"

\* what an operation leaves: the handle slot, the descriptors, the result
WinDone(op, p, outcome, gone) ==
    \E res \in {outcome} :
    /\ Len(res.ds) <= MaxDesc
    /\ wpipes' = [wpipes EXCEPT ![p] =
                    IF gone THEN [WNoPipe EXCEPT !.st = "dropped"]
                    ELSE [@ EXCEPT !.handle = res.handle]]
    /\ wdesc' = Account(res.ds, res.calls)
    /\ wlast' = [op |-> op, p |-> p, ok |-> res.ok, n |-> res.n,
                 err |-> res.err, calls |-> res.calls,
                 before |-> wpipes[p].handle]

\* Pipe::open
WinOpen(p, path) ==
    /\ WFresh(p)
    /\ wpipes' = [wpipes EXCEPT ![p] =
                    [st |-> "live", handle |-> WNoHandle, path |-> path]]
    /\ wlast' = [WIdle EXCEPT !.op = "open", !.p = p]
    /\ UNCHANGED wdesc

\* Pipe::with_name
WinWithName(p, name) == WinOpen(p, WinWithNamePath(name))

\* #[derive(Clone)] struct Pipe
WinClone(p, q) ==
    /\ WLive(p)
    /\ WFresh(q)
    /\ wpipes' = [wpipes EXCEPT ![q] =
                    [wpipes[p] EXCEPT !.handle = CloneHandle(@)]]
    /\ wlast' = [WIdle EXCEPT !.op = "clone", !.p = q,
                              !.before = wpipes[p].handle]
    /\ UNCHANGED wdesc

\* a Pipe value goes out of scope: its handle field is dropped
WinDrop(p, fr, dr) ==
    /\ WLive(p)
    /\ wpipes[p].handle.k # "Arc" => fr = 0
    /\ wpipes[p].handle.k # "Arc" \/ wpipes[p].handle.ty # "Server" => dr = 0
    /\ WinDone("drop", p,
               WResult(TRUE, 0, 0, WNoHandle, wdesc,
                       Teardown(wpipes[p].handle, fr, dr)), TRUE)

\* a Handle is made NonOwning: the slot keeps the role and names no
\* descriptor; the descriptor is not released
WinNeutralize(p) ==
    /\ WLive(p)
    /\ wpipes[p].handle.k = "Arc"
    /\ wpipes' = [wpipes EXCEPT ![p].handle = WWeak(@.ty)]
    /\ wlast' = [WIdle EXCEPT !.op = "neutralize", !.p = p,
                              !.before = wpipes[p].handle]
    /\ UNCHANGED wdesc

WinClose(p, dr) ==
    /\ WLive(p)
    /\ wpipes[p].handle.k # "Arc" \/ wpipes[p].handle.ty # "Server" => dr = 0
    /\ WinDone("close", p, CloseOutcome(wpipes[p].handle, wdesc, dr), TRUE)

WinWrite(p, c1, w1, c2, w2) ==
    /\ WLive(p)
    /\ WriteAsked(wpipes[p].handle, wdesc, wpipes[p].path, c1, w1, c2, w2)
    /\ WinDone("write", p,
               WriteOutcome(wpipes[p].handle, wdesc, wpipes[p].path,
                            c1, w1, c2, w2), FALSE)

WinFlush(p, c, f) ==
    /\ WLive(p)
    /\ FlushAsked(wpipes[p].handle, c, f)
    /\ WinDone("flush", p,
               FlushOutcome(wpipes[p].handle, wdesc, wpipes[p].path, c, f),
               FALSE)

WinRead(p, l, hs, r) ==
    /\ WLive(p)
    /\ ReadAsked(wpipes[p].handle, wdesc, wpipes[p].path, l, hs, r)
    /\ WinDone("read", p,
               ReadOutcome(wpipes[p].handle, wdesc, wpipes[p].path, l, hs, r),
               FALSE)

\* ------------------------------------------------------------------------
\* POSIX: the specification
\* ------------------------------------------------------------------------

PosixInit ==
    /\ fs = [q \in Paths |->
                IF q \in DOMAIN Preset THEN [mode |-> Preset[q], ino |-> 0]
                ELSE NoNode]
    /\ nIno = 0
    /\ fdTable = [n \in Fds |-> 0]
    /\ instIno = [i \in Insts |-> 0]
    /\ buf = [i \in Inodes |-> <<>>]
    /\ pipes = [p \in Pipes |-> NoPipe]
    /\ plast = PIdle

LogInit ==
    /\ wrote = [p \in Pipes |-> <<>>]
    /\ readLog = [p \in Pipes |-> <<>>]

WinInit ==
    /\ wpipes = [p \in WPipes |-> WNoPipe]
    /\ wdesc = <<>>
    /\ wlast = WIdle

\* PIPES is empty and no thread is inside a call
MaxThreads == 2
Threads == 1..MaxThreads
Idle == [op |-> "idle", p |-> 0]
RIdle == [op |-> "none", name |-> "", found |-> FALSE, ok |-> TRUE,
          err |-> ""]
StaticInit0 ==
    /\ registry = [n \in Names |-> 0]
    /\ retired = {}
    /\ busy = [t \in Threads |-> Idle]
    /\ rlast = RIdle
    /\ regLast = [n \in Names |-> [op |-> "none", ever |-> FALSE]]

MaxFifos == 3
Fifos == 1..MaxFifos
MaxCloses == 2
NoFifo == [st |-> "unused", handle |-> 0, inst |-> 0, path |-> "",
           is_closed |-> FALSE, delete |-> "NoDelete", master |-> 0,
           closes |-> 0]
FIdle == [op |-> "none", f |-> 0, ok |-> TRUE, err |-> "", closed |-> 0]
FifoInit ==
    /\ fifos = [f \in Fifos |-> NoFifo]
    /\ flast = FIdle

\* no instance of the pipe exists and no write is inside create_pipe
CIdle == [pc |-> "idle", p |-> 0, desc |-> 0, again |-> FALSE,
          spun |-> FALSE, calls |-> <<>>]
WaitInit ==
    /\ avail = "none"
    /\ conn = CIdle

SideInit == StaticInit0 /\ FifoInit /\ WaitInit

Init == PosixInit /\ LogInit /\ WinInit /\ SideInit

Next ==
    \/ \E p \in Pipes, path \in Paths, policy \in {"Delete", "NoDelete"} :
          Open(p, path, policy) /\ UNCHANGED <<logVars, winVars, sideVars>>
    \/ \E p \in Pipes, name \in Names :
          WithName(p, name) /\ UNCHANGED <<logVars, winVars, sideVars>>
    \/ \E p, q \in Pipes : Clone(p, q) /\ UNCHANGED <<logVars, winVars, sideVars>>
    \/ \E p \in Pipes : Drop(p) /\ UNCHANGED <<logVars, winVars, sideVars>>
    \/ \E p \in Pipes : Write(p, <<1>>) /\ UNCHANGED <<logVars, winVars, sideVars>>
    \/ \E p \in Pipes : Flush(p) /\ UNCHANGED <<logVars, winVars, sideVars>>
    \/ \E p \in Pipes, n \in ReadSizes :
          Read(p, n) /\ UNCHANGED <<logVars, winVars, sideVars>>
    \/ \E p \in Pipes : Close(p) /\ UNCHANGED <<logVars, winVars, sideVars>>

Spec == Init /\ [][Next]_vars

\* ------------------------------------------------------------------------
\* Windows: the specification
\* ------------------------------------------------------------------------
WinNext ==
    \/ \E p \in WPipes, path \in WinPaths :
          WinOpen(p, path) /\ UNCHANGED <<posixVars, logVars, sideVars>>
    \/ \E p \in WPipes, name \in WinNames :
          WinWithName(p, name) /\ UNCHANGED <<posixVars, logVars, sideVars>>
    \/ \E p, q \in WPipes : WinClone(p, q) /\ UNCHANGED <<posixVars, logVars, sideVars>>
    \/ \E p \in WPipes, fr \in FlushResults, dr \in DisconnectResults :
          WinDrop(p, fr, dr) /\ UNCHANGED <<posixVars, logVars, sideVars>>
    \/ \E p \in WPipes, dr \in DisconnectResults :
          WinClose(p, dr) /\ UNCHANGED <<posixVars, logVars, sideVars>>
    \/ \E p \in WPipes, a \in WriteAnswers :
          WinWrite(p, a[1], a[2], a[3], a[4])
             /\ UNCHANGED <<posixVars, logVars, sideVars>>
    \/ \E p \in WPipes, c \in ConnectResults, f \in FlushResults :
          WinFlush(p, c, f) /\ UNCHANGED <<posixVars, logVars, sideVars>>
    \/ \E p \in WPipes, l \in ListenResults, hs \in HandshakeResults,
          r \in ReadResults :
          WinRead(p, l, hs, r) /\ UNCHANGED <<posixVars, logVars, sideVars>>

SpecWin == Init /\ [][WinNext]_vars

\* the same, when a Pipe's handle can be a NonOwning one
WinNeutralNext ==
    \/ WinNext
    \/ \E p \in WPipes :
          WinNeutralize(p) /\ UNCHANGED <<posixVars, logVars, sideVars>>

SpecWinNeutral == Init /\ [][WinNeutralNext]_vars

\* ------------------------------------------------------------------------
\* POSIX: two independent Pipes on one name, one writing, one reading
\* ------------------------------------------------------------------------
\* Pipe p is the only one that has been asked for direction ty
OnlyUser(p, ty) ==
    /\ pipes[p].handle1.ty \in {"Unknown", ty}
    /\ \A q \in Pipes \ {p} : pipes[q].handle1.ty # ty

RTWithName(p, name) ==
    /\ WithName(p, name)
    /\ UNCHANGED <<logVars, winVars, sideVars>>

RTWrite(p, bytes) ==
    /\ OnlyUser(p, "Write")
    /\ Write(p, bytes)
    /\ wrote' = [wrote EXCEPT ![p] = IF plast'.ok THEN @ \o bytes ELSE @]
    /\ UNCHANGED <<readLog, winVars, sideVars>>

\* the bytes a read took: what left the FIFO's buffer
Taken(b, b2) ==
    IF \E i \in Inodes : b2[i] # b[i]
    THEN LET i == CHOOSE j \in Inodes : b2[j] # b[j]
         IN SubSeq(b[i], 1, Len(b[i]) - Len(b2[i]))
    ELSE <<>>

RTRead(p, n) ==
    /\ OnlyUser(p, "Read")
    /\ Read(p, n)
    /\ readLog' = [readLog EXCEPT ![p] = @ \o Taken(buf, buf')]
    /\ UNCHANGED <<wrote, winVars, sideVars>>

RoundTripNext ==
    \/ \E p \in Pipes, name \in Names : RTWithName(p, name)
    \/ \E p \in Pipes, bytes \in WriteInputs : RTWrite(p, bytes)
    \/ \E p \in Pipes, n \in ReadSizes : RTRead(p, n)

\* both names are free when the program starts
RoundTripInit ==
    /\ fs = [q \in Paths |->
                IF q \in DOMAIN Preset \ {WithNamePath(n) : n \in Names}
                THEN [mode |-> Preset[q], ino |-> 0]
                ELSE NoNode]
    /\ nIno = 0
    /\ fdTable = [n \in Fds |-> 0]
    /\ instIno = [i \in Insts |-> 0]
    /\ buf = [i \in Inodes |-> <<>>]
    /\ pipes = [p \in Pipes |-> NoPipe]
    /\ plast = PIdle
    /\ LogInit
    /\ WinInit
    /\ SideInit

SpecRoundTrip == RoundTripInit /\ [][RoundTripNext]_vars

\* ------------------------------------------------------------------------
\* Properties
\* ------------------------------------------------------------------------
\* the descriptions a Pipe's handle slots name
Held(pp) == {h.inst : h \in {x \in {pp.handle1, pp.handle2} : x.k = "Arc"}}

\* the handle a write or flush is delegated to
WriteHandle(pp) == IF pp.handle1.ty = "Write" THEN pp.handle1 ELSE pp.handle2

IoOps == {"read", "write", "flush"}
Requested(op) == IF op = "read" THEN "Read" ELSE "Write"

\* C1: the drop of a clone (of the master or of another clone) leaves every
\* node of the file system in place and closes no descriptor that the live
\* master holds; a FIFO path is unlinked only in the drop of a master whose
\* cleanup policy is Delete (close(self) ends with that drop).
C1_CloneDropKeepsResource ==
    [][/\ \A p \in Pipes :
            (Live(p) /\ pipes[p].master # p
               /\ plast'.op = "drop" /\ plast'.p = p)
            => /\ fs' = fs
               /\ \A i \in Held(pipes[pipes[p].master]) :
                     (Live(pipes[p].master) /\ InstOpen(fdTable, i))
                     => InstOpen(fdTable', i)
       /\ \A q \in Paths :
            (fs[q].mode # 0 /\ fs'[q].mode = 0)
            => /\ plast'.op \in {"drop", "close"}
               /\ pipes[plast'.p].master = plast'.p
               /\ pipes[plast'.p].delete = "Delete"
               /\ pipes[plast'.p].path = q]_vars

\* a clone of a clone has been dropped while the master, whose policy is
\* Delete, is live, holds an open descriptor and its FIFO is in place
C1_Witness ==
    /\ plast.op = "drop"
    /\ pipes[plast.p].st = "dropped"
    /\ pipes[plast.p].gen = 2
    /\ LET m == pipes[plast.p].master
       IN /\ Live(m)
          /\ pipes[m].delete = "Delete"
          /\ InstOpen(fdTable, pipes[m].handle1.inst)
          /\ fs[pipes[m].path].mode = S_IFIFO

\* C7: a handle slot's role changes at most once, from Unknown to the
\* direction of the I/O call that classifies it, and never afterwards;
\* handle2 is opened at most once, against the Pipe's path, for the direction
\* handle1 does not carry, and is kept from then on; no Pipe opens more than
\* two descriptors.
C7_RolesPermanent ==
    /\ [](\A p \in Pipes : pipes[p].opens <= 2)
    /\ [][\A p \in Pipes :
            (Live(p) /\ pipes'[p].st = "live")
            => LET a == pipes[p]
                   b == pipes'[p]
               IN /\ a.handle1.ty # "Unknown" => b.handle1 = a.handle1
                  /\ b.handle1 # a.handle1
                     => /\ plast'.op \in IoOps /\ plast'.p = p
                        /\ b.handle1 =
                             [a.handle1 EXCEPT !.ty = Requested(plast'.op)]
                  /\ a.handle2.k # "None" => b.handle2 = a.handle2
                  /\ b.handle2 # a.handle2
                     => /\ plast'.op \in IoOps /\ plast'.p = p
                        /\ b.handle2.k = "Arc"
                        /\ b.handle2.ty = Requested(plast'.op)
                        /\ b.handle2.ty # b.handle1.ty
                        /\ b.handle1.ty # "Unknown"
                        /\ instIno'[b.handle2.inst] = fs[a.path].ino
                        /\ b.opens = a.opens + 1
                  /\ b.handle2 = a.handle2 => b.opens = a.opens]_vars

\* a Pipe that wrote through handle1 has opened handle2 for reading, and a
\* later read has been served through handle2 without opening anything
C7_Witness ==
    /\ plast.op = "read" /\ plast.ok /\ ~plast.opened
    /\ Live(plast.p)
    /\ pipes[plast.p].handle1.ty = "Write"
    /\ pipes[plast.p].handle2.ty = "Read"
    /\ pipes[plast.p].opens = 2

\* C8: a write or flush that was delegated to the Pipe's write descriptor
\* leaves that descriptor open.
C8_WriteKeepsDescriptorOpen ==
    (plast.op \in {"write", "flush"} /\ plast.err \in {"", "ENOTTY"}
       /\ Live(plast.p))
    => InstOpen(fdTable, WriteHandle(pipes[plast.p]).inst)

\* C10: open of a path whose node is not a FIFO returns InvalidPath, makes
\* no Pipe, creates and removes no node and opens no descriptor.
C10_OpenNonFifoInvalidPath ==
    [][\A p \in Pipes, q \in Paths, policy \in {"Delete", "NoDelete"} :
          (Open(p, q, policy) /\ fs[q].mode \in NonFifoModes)
          => /\ ~plast'.ok /\ plast'.err = "InvalidPath"
             /\ pipes' = pipes
             /\ fs' = fs /\ nIno' = nIno
             /\ fdTable' = fdTable /\ instIno' = instIno]_vars

\* an open has returned InvalidPath while another Pipe is live on its FIFO
C10_Witness ==
    /\ plast.op = "open" /\ plast.err = "InvalidPath"
    /\ pipes[plast.p].st = "unused"
    /\ \E m \in Pipes : Live(m) /\ InstOpen(fdTable, pipes[m].handle1.inst)

\* C9: two independent Pipes made by with_name with the same name are open
\* on the same FIFO object, and whatever writes on the one and reads on the
\* other have been made, every byte a write accepted has either been read, in
\* the order written, or is still in the FIFO: the bytes read are a prefix of
\* the bytes written and none is lost, duplicated or reordered.
C9_RoundTripConserved ==
    \A w, r \in Pipes :
        (/\ w # r /\ Live(w) /\ Live(r)
         /\ pipes[w].path = pipes[r].path
         /\ pipes[w].handle1.ty # "Read"
         /\ pipes[r].handle1.ty # "Write")
        => /\ instIno[pipes[w].handle1.inst] = instIno[pipes[r].handle1.inst]
           /\ wrote[w] = readLog[r] \o buf[instIno[pipes[w].handle1.inst]]

\* ------------------------------------------------------------------------
\* Windows: properties
\* ------------------------------------------------------------------------
\* the positions in the last operation's calls where the OS call c was made
CallsOf(c) == {i \in 1..Len(wlast.calls) : wlast.calls[i].c = c}

First(S) == CHOOSE i \in S : \A j \in S : i <= j

\* the live Pipes whose handle owns descriptor d
Owners(d) == {p \in WPipes : WLive(p) /\ WRaw(wpipes[p].handle) = d}

\* C2: a descriptor shared by a Pipe and its clones is released only by the
\* drop of its last Owning reference: no descriptor is closed while a live
\* Pipe still owns it, and none is closed more than once.
C2_ReleasedOnceByLastOwner ==
    \A d \in DOMAIN wdesc :
        /\ wdesc[d].closes <= 1
        /\ wdesc[d].closes > 0 => Owners(d) = {}

\* C3: a write whose first WriteFile fails with ERROR_NO_DATA releases the
\* handle, acquires one new client connection and calls WriteFile once more,
\* returning that second result whatever it is; when the new connection
\* cannot be acquired that error is returned and the slot is left empty; a
\* first failure with any other error is returned with no reconnect and the
\* handle kept.
C3_WriteRetriesOnce ==
    wlast.op = "write" /\ CallsOf("WriteFile") # {} =>
        LET ws == CallsOf("WriteFile")
            f == First(ws)
            first == wlast.calls[f]
            later == {i \in CallsOf("WaitNamedPipeW") : i > f}
            last == wlast.calls[Len(wlast.calls)]
            now == wpipes[wlast.p].handle
        IN  /\ Cardinality(ws) <= 2
            /\ first.res = 0 =>
                  /\ wlast.ok /\ ws = {f} /\ later = {}
                  /\ WRaw(now) = first.d
            /\ first.res = ERROR_NO_DATA =>
                  /\ Cardinality(later) = 1
                  /\ \E i \in CallsOf("CloseHandle") :
                        /\ f < i /\ i < First(later)
                        /\ wlast.calls[i].d = first.d
                  /\ IF Cardinality(ws) = 2
                     THEN /\ last.c = "WriteFile" /\ last.d # first.d
                          /\ wlast.ok = (last.res = 0)
                          /\ ~wlast.ok => wlast.err = last.res
                          /\ WRaw(now) = last.d
                     ELSE /\ ~wlast.ok /\ last.res # 0
                          /\ last.c # "WriteFile"
                          /\ now = WNoHandle
            /\ first.res \notin {0, ERROR_NO_DATA} =>
                  /\ ~wlast.ok /\ wlast.err = first.res
                  /\ ws = {f} /\ later = {}
                  /\ Len(wlast.calls) = f
                  /\ WRaw(now) = first.d

\* a write retried after ERROR_NO_DATA whose second WriteFile fails with
\* ERROR_NO_DATA again: the error is returned
C3_Witness ==
    /\ wlast.op = "write"
    /\ Cardinality(CallsOf("WriteFile")) = 2
    /\ \A i \in CallsOf("WriteFile") : wlast.calls[i].res = ERROR_NO_DATA
    /\ ~wlast.ok /\ wlast.err = ERROR_NO_DATA

C5_DisconnectAtMostOnce ==
    (/\ wlast.op = "close"
     /\ wlast.before.k = "Arc"
     /\ wlast.before.ty = "Server")
    => Count(wlast.calls, "DisconnectNamedPipe", wlast.before.desc) <= 1

\* C6 (as stated): after a flush that returns Ok the handle slot is empty.
C6_FlushOkEmptiesSlot ==
    wlast.op = "flush" /\ wlast.ok => wpipes[wlast.p].handle.k = "None"

\* C6 (amended): after a flush that returns Ok, the slot is empty and the
\* handle released if the Pipe held a handle when flush was called; if it
\* held none, the slot holds the Client handle flush has just connected.
C6_FlushOkDiscardsHeldHandle ==
    wlast.op = "flush" /\ wlast.ok =>
        IF wlast.before.k = "None"
        THEN /\ wpipes[wlast.p].handle.k = "Arc"
             /\ wpipes[wlast.p].handle.ty = "Client"
             /\ \E i \in CallsOf("CreateFileW") :
                   wlast.calls[i].d = wpipes[wlast.p].handle.desc
        ELSE /\ wpipes[wlast.p].handle = WNoHandle
             /\ Count(wlast.calls, "CloseHandle", wlast.before.desc) = 1

\* a flush on a Pipe that held a handle has returned Ok
C6_Witness ==
    /\ wlast.op = "flush" /\ wlast.ok
    /\ wlast.before.k = "Arc"

\* ------------------------------------------------------------------------
\* The named registry (static_pipe.rs) over the POSIX Pipe
\* ------------------------------------------------------------------------
\* the Pipe values a caller holds: live, not inside PIPES, not retired
Registered == {registry[n] : n \in Names} \ {0}
CallerHeld(p) == Live(p) /\ p \notin Registered /\ p \notin retired

\* memory for a new Pipe value: the lowest slot that holds no live value and
\* whose descriptions are all closed and named by no handle
SlotFree(p) ==
    /\ pipes[p].st # "live"
    /\ \A s \in {1, 2} :
          /\ ~InstOpen(fdTable, Inst(p, s))
          /\ \A q \in Pipes : Live(q) => Inst(p, s) \notin
                {pipes[q].handle1.inst, pipes[q].handle2.inst}
NewSlot(p, taken) ==
    /\ p \notin taken
    /\ SlotFree(p)
    /\ \A q \in Pipes \ taken : q < p => ~SlotFree(q)

\* the entry's Mutex is held by a thread inside print
Locked(p) == \E t \in Threads : busy[t] = [op |-> "print", p |-> p]
InUse(p) == \E t \in Threads : busy[t].p = p

\* a variant: the entry stays in the map
Remove_Keep(reg, name) == reg

\* HashMap::remove(name)
Remove(reg, name) == [reg EXCEPT ![name] = 0]

\* HashMap::insert(name, value): the entry is replaced
Insert(reg, name, p) == [reg EXCEPT ![name] = p]

Touch(last, name, op) ==
    [last EXCEPT ![name] = [op |-> op, ever |-> @.ever \/ op = "init"]]

\* static_pipe::init(name): Pipe::with_name(name)?, a clone of it for the
\* caller, the Pipe into PIPES under the name
StaticInit(name, p, q) ==
    /\ NewSlot(p, {})
    /\ NewSlot(q, {p})
    /\ \E o \in {OpenOutcome(p, WithNamePath(name))} :
       LET pipe == [st |-> "live", handle1 |-> o.handle,
                    handle2 |-> NoHandle, path |-> WithNamePath(name),
                    is_slave |-> FALSE, delete |-> "NoDelete",
                    master |-> p, gen |-> 0, opens |-> 1]
       IN /\ fs' = o.fs
          /\ nIno' = o.nIno
          /\ fdTable' = o.table
          /\ instIno' = o.ino
          /\ pipes' = IF o.ok
                      THEN [pipes EXCEPT ![p] = pipe, ![q] = ClonePipe(pipe)]
                      ELSE pipes
          /\ registry' = IF o.ok THEN Insert(registry, name, p) ELSE registry
          /\ retired' = IF o.ok /\ registry[name] # 0
                        THEN retired \cup {registry[name]} ELSE retired
          /\ regLast' = IF o.ok THEN Touch(regLast, name, "init") ELSE regLast
          /\ plast' = [PIdle EXCEPT !.op = "open", !.p = p, !.ok = o.ok,
                                      !.err = o.err, !.opened = o.ok]
          /\ rlast' = [RIdle EXCEPT !.op = "init", !.name = name,
                                      !.found = registry[name] # 0,
                                      !.ok = o.ok, !.err = o.err]
    /\ UNCHANGED <<buf, busy>>

\* static_pipe::get(name): a clone made under the entry's lock
StaticGet(name, q) ==
    /\ registry[name] # 0 => /\ ~Locked(registry[name])
                             /\ NewSlot(q, {})
    /\ registry[name] = 0 => q = 1
    /\ pipes' = IF registry[name] # 0
                THEN [pipes EXCEPT ![q] = ClonePipe(pipes[registry[name]])]
                ELSE pipes
    /\ rlast' = [RIdle EXCEPT !.op = "get", !.name = name,
                                !.found = registry[name] # 0,
                                !.ok = registry[name] # 0]
    /\ plast' = IF registry[name] # 0
                THEN [PIdle EXCEPT !.op = "clone", !.p = q] ELSE plast
    /\ UNCHANGED <<fs, nIno, fdTable, instIno, buf, registry, retired, busy,
                   regLast>>

\* static_pipe::close(name).  The map frees a removed value once no thread
\* holds a reference into it (Reclaim).
StaticClose(name) ==
    /\ registry' = Remove(registry, name)
    /\ retired' = retired \cup ({registry[name]} \ {0, registry'[name]})
    /\ regLast' = Touch(regLast, name, "close")
    /\ rlast' = [RIdle EXCEPT !.op = "close", !.name = name,
                                !.found = registry[name] # 0]
    /\ UNCHANGED <<posixVars, busy>>

\* static_pipe::close_all()
StaticCloseAll ==
    /\ registry' = [n \in Names |-> 0]
    /\ retired' = retired \cup Registered
    /\ regLast' = [n \in Names |->
                     [op |-> "close", ever |-> regLast[n].ever]]
    /\ rlast' = [RIdle EXCEPT !.op = "close_all",
                                !.found = Registered # {}]
    /\ UNCHANGED <<posixVars, busy>>

\* the removed Pipe is dropped
Reclaim(p) ==
    /\ p \in retired
    /\ ~InUse(p)
    /\ Drop(p)
    /\ retired' = retired \ {p}
    /\ UNCHANGED <<registry, busy, rlast, regLast>>

\* static_pipe::print(name, s), up to pipe.lock(): the lookup, and the error
\* of a miss
PrintLookup(t, name) ==
    /\ busy[t] = Idle
    /\ registry[name] # 0 => ~Locked(registry[name])
    /\ busy' = IF registry[name] # 0
               THEN [busy EXCEPT ![t] = [op |-> "print", p |-> registry[name]]]
               ELSE busy
    /\ rlast' = [RIdle EXCEPT !.op = "print", !.name = name,
                   !.found = registry[name] # 0,
                   !.ok = registry[name] # 0,
                   !.err = IF registry[name] # 0 THEN ""
                           ELSE "Pipe not initialized"]
    /\ UNCHANGED <<posixVars, registry, retired, regLast>>

\* static_pipe::print, from pipe.write(s.as_bytes()) to the return
PrintWrite(t) ==
    /\ busy[t].op = "print"
    /\ Write(busy[t].p, <<1>>)
    /\ busy' = [busy EXCEPT ![t] = Idle]
    /\ rlast' = [RIdle EXCEPT !.op = "printed", !.found = TRUE,
                                !.ok = plast'.ok, !.err = plast'.err]
    /\ UNCHANGED <<registry, retired, regLast>>

\* the calls threads make on the Pipes that init and get returned
CallerOps == {"write", "flush"}

\* a thread enters a call on a Pipe that init or get returned
IoEnter(t, q, op) ==
    /\ busy[t] = Idle
    /\ CallerHeld(q)
    /\ ~InUse(q)
    /\ busy' = [busy EXCEPT ![t] = [op |-> op, p |-> q]]
    /\ UNCHANGED <<posixVars, registry, retired, rlast, regLast>>

\* and the call returns
IoReturn(t) ==
    /\ busy[t].op \in CallerOps
    /\ CASE busy[t].op = "write" -> Write(busy[t].p, <<1>>)
         [] busy[t].op = "flush" -> Flush(busy[t].p)
    /\ busy' = [busy EXCEPT ![t] = Idle]
    /\ UNCHANGED <<registry, retired, rlast, regLast>>

\* the caller drops a Pipe that init or get returned
CallerDrop(q) ==
    /\ CallerHeld(q)
    /\ ~InUse(q)
    /\ Drop(q)
    /\ UNCHANGED regVars

RegistryNext ==
    \/ \E name \in Names, p, q \in Pipes :
          StaticInit(name, p, q) /\ UNCHANGED <<logVars, winVars, fifoVars,
                                                 waitVars>>
    \/ \E name \in Names, q \in Pipes :
          StaticGet(name, q) /\ UNCHANGED <<logVars, winVars, fifoVars,
                                            waitVars>>
    \/ \E name \in Names :
          StaticClose(name) /\ UNCHANGED <<logVars, winVars, fifoVars,
                                           waitVars>>
    \/ StaticCloseAll /\ UNCHANGED <<logVars, winVars, fifoVars, waitVars>>
    \/ \E p \in Pipes :
          Reclaim(p) /\ UNCHANGED <<logVars, winVars, fifoVars, waitVars>>
    \/ \E t \in Threads, name \in Names :
          PrintLookup(t, name) /\ UNCHANGED <<logVars, winVars, fifoVars,
                                              waitVars>>
    \/ \E t \in Threads :
          PrintWrite(t) /\ UNCHANGED <<logVars, winVars, fifoVars, waitVars>>
    \/ \E t \in Threads, q \in Pipes, op \in CallerOps :
          IoEnter(t, q, op) /\ UNCHANGED <<logVars, winVars, fifoVars,
                                           waitVars>>
    \/ \E t \in Threads :
          IoReturn(t) /\ UNCHANGED <<logVars, winVars, fifoVars, waitVars>>
    \/ \E q \in Pipes :
          CallerDrop(q) /\ UNCHANGED <<logVars, winVars, fifoVars, waitVars>>

SpecRegistry == Init /\ [][RegistryNext]_vars

C12_SharedHandleSerialized ==
    \A t, u \in Threads :
       (t # u /\ busy[t].op # "idle" /\ busy[u].op # "idle")
       => \A r \in Registered :
             ~(/\ Held(pipes[r]) \cap Held(pipes[busy[t].p]) # {}
               /\ Held(pipes[r]) \cap Held(pipes[busy[u].p]) # {})

\* ------------------------------------------------------------------------
\* POSIX: the Fifo of fifo_unix.rs
\* ------------------------------------------------------------------------
\* Fifo values are constructed into the lowest unused slot; the description
\* Fifo::open of slot f opens is number f
FifoFresh(f) == fifos[f].st = "unused"
                /\ \A g \in Fifos : g < f => fifos[g].st # "unused"
FifoLive(f) == fifos[f].st = "live"

\* Fifo::open(path, delete_on_drop) on the file system f0
FifoOpenOutcome(f, f0, path) ==
    LET s == Stat(f0, path)
        fd == LowestFree(fdTable)
        fail(e) == [ok |-> FALSE, err |-> e, fd |-> 0, fs |-> f0,
                    table |-> fdTable, ino |-> instIno]
    IN IF ~HasParent(path) THEN fail("InvalidPath")
       ELSE IF s.ok /\ ~IsFifoMode(s.mode) THEN fail("InvalidPath")
       ELSE IF ~s.ok THEN fail(s.err)
       ELSE IF fd = 0 THEN fail("EMFILE")
       ELSE [ok |-> TRUE, err |-> "", fd |-> fd, fs |-> f0,
             table |-> [fdTable EXCEPT ![fd] = f],
             ino |-> [instIno EXCEPT ![f] = f0[path].ino]]

\* Fifo::create(delete_on_drop) when the random path is `path`
FifoCreateOutcome(f, path) ==
    LET s == Stat(fs, path)
        f1 == [fs EXCEPT ![path] = [mode |-> S_IFIFO, ino |-> nIno + 1]]
    IN IF ~HasParent(path) \/ (s.ok /\ ~IsFifoMode(s.mode))
       THEN [ok |-> FALSE, err |-> "InvalidPath", fd |-> 0, fs |-> fs,
             table |-> fdTable, ino |-> instIno]
       ELSE IF s.ok THEN FifoOpenOutcome(f, fs, path)
       ELSE IF s.err = "ENOENT" THEN FifoOpenOutcome(f, f1, path)
       ELSE [ok |-> FALSE, err |-> s.err, fd |-> 0, fs |-> fs,
             table |-> fdTable, ino |-> instIno]

FifoMade(f, op, path, policy, o) ==
    /\ fs' = o.fs
    /\ nIno' = IF o.fs # fs THEN nIno + 1 ELSE nIno
    /\ fdTable' = o.table
    /\ instIno' = o.ino
    /\ fifos' = IF o.ok
                THEN [fifos EXCEPT ![f] =
                        [st |-> "live", handle |-> o.fd, inst |-> f,
                         path |-> path, is_closed |-> FALSE,
                         delete |-> policy, master |-> f, closes |-> 0]]
                ELSE fifos
    /\ flast' = [FIdle EXCEPT !.op = op, !.f = f, !.ok = o.ok,
                                !.err = o.err]
    /\ UNCHANGED <<buf, pipes, plast>>

FifoOpen(f, path, policy) ==
    /\ FifoFresh(f)
    /\ FifoMade(f, "open", path, policy, FifoOpenOutcome(f, fs, path))

FifoCreate(f, path, policy) ==
    /\ FifoFresh(f)
    /\ FifoMade(f, "create", path, policy, FifoCreateOutcome(f, path))

\* unistd::close(self.handle) in Fifo::close: the result, the description
\* that was closed (0: none), the number of close calls made
FifoCloseCall(ff, table) ==
    [ok |-> table[ff.handle] # 0,
     err |-> IF table[ff.handle] # 0 THEN "" ELSE "EBADF",
     table |-> CloseFd(table, ff.handle), closed |-> table[ff.handle],
     calls |-> 1]

\* the close calls made through the Fifo and its clones are counted in the
\* Fifo that open returned
Counted(fs0, f, n) ==
    [fs0 EXCEPT ![fs0[f].master].closes = @ + n]

\* Fifo::close(&mut self)
FifoClose(f) ==
    /\ FifoLive(f)
    /\ fifos[fifos[f].master].closes < MaxCloses
    /\ \E c \in {FifoCloseCall(fifos[f], fdTable)} :
          /\ fdTable' = c.table
          /\ buf' = Discard(c.table, instIno, buf)
          /\ fifos' = Counted([fifos EXCEPT ![f].is_closed = TRUE], f,
                              c.calls)
          /\ flast' = [FIdle EXCEPT !.op = "close", !.f = f, !.ok = c.ok,
                                      !.err = c.err, !.closed = c.closed]
    /\ UNCHANGED <<fs, nIno, instIno, pipes, plast>>

\* <Fifo as Clone>::clone
CloneFifo(ff) ==
    [st |-> "live", handle |-> ff.handle, inst |-> ff.inst,
     path |-> ff.path, is_closed |-> TRUE, delete |-> "NoDelete",
     master |-> ff.master, closes |-> 0]

FifoClone(f, g) ==
    /\ FifoLive(f)
    /\ FifoFresh(g)
    /\ fifos' = [fifos EXCEPT ![g] = CloneFifo(fifos[f])]
    /\ flast' = [FIdle EXCEPT !.op = "clone", !.f = g]
    /\ UNCHANGED posixVars

\* <Fifo as Drop>::drop: close unless is_closed (an error is only printed),
\* then remove_file(path).expect(..) if the policy is Delete
FifoDrop(f) ==
    /\ FifoLive(f)
    /\ \E c \in {IF fifos[f].is_closed
                 THEN [table |-> fdTable, closed |-> 0, calls |-> 0]
                 ELSE FifoCloseCall(fifos[f], fdTable)} :
       LET del == fifos[f].delete = "Delete"
           there == fs[fifos[f].path].mode # 0
       IN /\ fdTable' = c.table
          /\ buf' = Discard(c.table, instIno, buf)
          /\ fs' = IF del /\ there
                   THEN [fs EXCEPT ![fifos[f].path] = NoNode] ELSE fs
          /\ fifos' = Counted([fifos EXCEPT ![f].st = "dropped",
                                            ![f].is_closed =
                                               @ \/ c.calls # 0],
                              f, c.calls)
          /\ flast' = [FIdle EXCEPT !.op = "drop", !.f = f,
                         !.ok = ~(del /\ ~there),
                         !.err = IF del /\ ~there THEN "panic" ELSE "",
                         !.closed = c.closed]
    /\ UNCHANGED <<nIno, instIno, pipes, plast>>

\* Fifo::write_bytes(bytes): unistd::write(self.handle, ..).  A write into a
\* full FIFO blocks: the action is the call that returns.
FifoWrite(f, bytes) ==
    /\ FifoLive(f)
    /\ LET i == fdTable[fifos[f].handle]
           ino == IF i # 0 THEN instIno[i] ELSE 0
       IN /\ i # 0 => Len(buf[ino]) + Len(bytes) <= MaxBuf
          /\ buf' = IF i # 0 THEN [buf EXCEPT ![ino] = @ \o bytes] ELSE buf
          /\ flast' = [FIdle EXCEPT !.op = "write", !.f = f, !.ok = i # 0,
                         !.err = IF i # 0 THEN "" ELSE "EBADF"]
    /\ UNCHANGED <<fs, nIno, fdTable, instIno, pipes, plast, fifos>>

FifoNext ==
    \/ \E f \in Fifos, path \in Paths, policy \in {"Delete", "NoDelete"} :
          FifoOpen(f, path, policy)
             /\ UNCHANGED <<logVars, winVars, regVars, waitVars>>
    \/ \E f \in Fifos, path \in FreePaths,
          policy \in {"Delete", "NoDelete"} :
          FifoCreate(f, path, policy)
             /\ UNCHANGED <<logVars, winVars, regVars, waitVars>>
    \/ \E f \in Fifos :
          FifoClose(f) /\ UNCHANGED <<logVars, winVars, regVars, waitVars>>
    \/ \E f, g \in Fifos :
          FifoClone(f, g) /\ UNCHANGED <<logVars, winVars, regVars, waitVars>>
    \/ \E f \in Fifos :
          FifoDrop(f) /\ UNCHANGED <<logVars, winVars, regVars, waitVars>>
    \/ \E f \in Fifos :
          FifoWrite(f, <<1>>)
             /\ UNCHANGED <<logVars, winVars, regVars, waitVars>>

SpecFifo == Init /\ [][FifoNext]_vars

\* C13: the close calls made on a Fifo's descriptor through the Fifo and its
\* clones number at most one, and exactly one once the Fifo that open
\* returned is deallocated; no close or drop closes a description opened by
\* another Fifo; the drop of a clone closes no descriptor and unlinks no
\* path.
C13_ClosedExactlyOnce ==
    /\ [](\A f \in Fifos :
            (fifos[f].st # "unused" /\ fifos[f].master = f)
            => /\ fifos[f].closes <= 1
               /\ fifos[f].st = "dropped" => fifos[f].closes = 1)
    /\ [](flast.closed # 0 => flast.closed = fifos[flast.f].inst)
    /\ [][\A f \in Fifos :
            (FifoLive(f) /\ fifos[f].master # f /\ flast'.op = "drop"
               /\ flast'.f = f /\ fifos'[f].st = "dropped")
            => fdTable' = fdTable /\ fs' = fs]_vars

\* ------------------------------------------------------------------------
\* Properties of the Windows handle slot
\* ------------------------------------------------------------------------
\* C14: every WriteFile a Pipe makes is on a descriptor that create_pipe
\* opened (a Client handle), and every ReadFile is on a listener's descriptor
\* on which ConnectNamedPipe has been called, whatever the order of the
\* read, write and flush calls on the Pipe.
C14_WriteClientReadServer ==
    \A i \in 1..Len(wlast.calls) :
       LET call == wlast.calls[i]
       IN /\ call.c = "WriteFile" => ~wdesc[call.d].server
          /\ call.c = "ReadFile"
             => wdesc[call.d].server /\ wdesc[call.d].shaken

\* C15: of the listener instances created on one path, only the earliest
\* was created with FILE_FLAG_FIRST_PIPE_INSTANCE.
C15_OnlyFirstListenerPrimary ==
    \A d1, d2 \in DOMAIN wdesc :
       (d1 < d2 /\ wdesc[d1].server /\ wdesc[d2].server
          /\ wdesc[d1].path = wdesc[d2].path)
       => ~wdesc[d2].first

ListenerCalls(calls) ==
    {i \in 1..Len(calls) :
        calls[i].c \in {ListenerCall(TRUE), ListenerCall(FALSE)}}

\* C16: a read on a Pipe whose handle has a descriptor creates no listener,
\* makes no handshake, reads from that descriptor and leaves the handle in
\* place; a read on a Pipe whose handle has no descriptor makes exactly one
\* CreateNamedPipeW call, without FILE_FLAG_FIRST_PIPE_INSTANCE, then
\* ConnectNamedPipe on the new listener, and unless the handshake fails with
\* an error that is returned, the new listener is the Pipe's handle and the
\* ReadFile is made on it.
C16_ReadReusesOrReplaces ==
    wlast.op = "read" =>
       LET cs == wlast.calls
           h == wlast.before
           now == wpipes[wlast.p].handle
       IN /\ h.k = "Arc"
             => /\ ListenerCalls(cs) = {}
                /\ Len(cs) = 1
                /\ cs[1].c = "ReadFile" /\ cs[1].d = h.desc
                /\ now = h
          /\ h.k = "Weak"
             => /\ ListenerCalls(cs) = {1}
                /\ cs[1].c = ListenerCall(FALSE)
                /\ cs[1].res = 0
                   => /\ Len(cs) >= 2
                      /\ cs[2].c = "ConnectNamedPipe" /\ cs[2].d = cs[1].d
                      /\ cs[2].res \in {0, ERROR_PIPE_NOT_CONNECTED}
                         => /\ now = WArc(cs[1].d, "Server")
                            /\ Len(cs) = 3
                            /\ cs[3].c = "ReadFile" /\ cs[3].d = cs[1].d
                /\ cs[1].res # 0 => now = h /\ ~wlast.ok

\* a read found a handle without a descriptor, made a listener, connected it
\* and read a byte from it
C16_Witness ==
    /\ wlast.op = "read"
    /\ wlast.before.k = "Weak"
    /\ Len(wlast.calls) = 3
    /\ wlast.ok /\ wlast.n = 1

\* C17: the drop of a Pipe whose handle is an Arc calls FlushFileBuffers,
\* then DisconnectNamedPipe exactly when the handle is tagged Server, then
\* CloseHandle, all on the handle's descriptor and whatever the flush and
\* the disconnect returned; the drop of a Pipe whose handle is not an Arc
\* makes no call.
C17_TeardownOrder ==
    wlast.op = "drop" =>
       LET cs == wlast.calls
           h == wlast.before
       IN IF h.k = "Arc"
          THEN /\ Len(cs) = IF h.ty = "Server" THEN 3 ELSE 2
               /\ cs[1].c = "FlushFileBuffers"
               /\ h.ty = "Server" => cs[2].c = "DisconnectNamedPipe"
               /\ cs[Len(cs)].c = "CloseHandle"
               /\ \A i \in 1..Len(cs) : cs[i].d = h.desc
          ELSE cs = <<>>

\* a Server handle was dropped, its flush failed, its disconnect failed, and
\* CloseHandle was called
C17_Witness ==
    /\ wlast.op = "drop"
    /\ wlast.before.k = "Arc" /\ wlast.before.ty = "Server"
    /\ Len(wlast.calls) = 3
    /\ wlast.calls[1].res # 0
    /\ wlast.calls[2].res # 0
    /\ wlast.calls[3].c = "CloseHandle"

\* ------------------------------------------------------------------------
\* Properties of POSIX clone families and of close
\* ------------------------------------------------------------------------
\* C18: when the master of a clone family has been dropped, a read, write or
\* flush of a surviving slave does not fail because the path is gone, and
\* leaves open every descriptor the slave holds.
C18_SlaveUnaffectedByMasterDrop ==
    [][\A q \in Pipes :
          (/\ Live(q) /\ pipes[q].is_slave
           /\ pipes[pipes[q].master].st = "dropped"
           /\ plast'.op \in IoOps /\ plast'.p = q)
          => /\ plast'.err # "ENOENT"
             /\ \A i \in Held(pipes[q]) :
                   InstOpen(fdTable, i) => InstOpen(fdTable', i)]_vars

\* C19: close makes no OS call and returns Ok when handle1 has no
\* descriptor; otherwise it closes handle1's descriptor and nothing else
\* when that descriptor is open, and returns EBADF and closes nothing when
\* it has been closed before.
C19_CloseOnlyOwnDescriptor ==
    [][\A p \in Pipes :
          (Live(p) /\ plast'.op = "close" /\ plast'.p = p)
          => LET h == pipes[p].handle1
                 fd == Raw(h)
             IN /\ fd = 0 => plast'.err = "" /\ fdTable' = fdTable
                /\ (fd # 0 /\ fdTable[fd] = h.inst)
                   => /\ plast'.err # "EBADF"
                      /\ fdTable' = [fdTable EXCEPT ![fd] = 0]
                /\ (fd # 0 /\ fdTable[fd] # h.inst)
                   => /\ plast'.err = "EBADF"
                      /\ fdTable' = fdTable]_vars

\* ------------------------------------------------------------------------
\* Windows: a write, call by call, against the listener side of the pipe
\* ------------------------------------------------------------------------
\* ERROR_FILE_NOT_FOUND, the `Some(2)` arm of the wait loop
ERROR_FILE_NOT_FOUND == 2
WaitResults == {0, OsError.timeout}
ModeResults == {0, OsError.denied}

\* the listener side creates an instance of the pipe, or frees the one it has
InstanceUp ==
    /\ avail # "free"
    /\ avail' = "free"
    /\ UNCHANGED <<winVars, conn>>

\* the listener side closes its instance
InstanceDown ==
    /\ avail # "none"
    /\ avail' = "none"
    /\ UNCHANGED <<winVars, conn>>

\* the write returns
Return(ok, n, err, calls) ==
    /\ wlast' = [op |-> "write", p |-> conn.p, ok |-> ok, n |-> n,
                 err |-> err, calls |-> calls,
                 before |-> IF conn.again \/ conn.desc # 0 THEN WNoHandle
                            ELSE wpipes[conn.p].handle]
    /\ conn' = CIdle

\* impl Write for Pipe :: write is called: init_writer goes into create_pipe
\* when the Pipe has no handle
WriteEnter(p) ==
    /\ conn.pc = "idle"
    /\ WLive(p)
    /\ conn' = [CIdle EXCEPT !.p = p,
                  !.pc = IF wpipes[p].handle.k = "None" THEN "wait"
                         ELSE "write"]
    /\ UNCHANGED <<winVars, avail>>

\* create_pipe, one WaitNamedPipeW(path, 0xffffffff) of the loop: it fails
\* with code 2 when the pipe has no instance (the loop goes round), it does
\* not return while the only instance is taken, it returns nonzero when an
\* instance is free; e is another error the call ends with
WaitStep(e) ==
    /\ conn.pc = "wait"
    /\ IF e # 0
       THEN /\ Return(FALSE, 0, e,
                      Append(conn.calls, Call("WaitNamedPipeW", 0, e)))
            /\ UNCHANGED <<wpipes, wdesc, avail>>
       ELSE /\ avail # "taken"
            /\ conn' = IF avail = "none" THEN [conn EXCEPT !.spun = TRUE]
                       ELSE [conn EXCEPT !.pc = "open",
                               !.calls = Append(@, Call("WaitNamedPipeW",
                                                        0, 0))]
            /\ UNCHANGED <<winVars, avail>>

\* create_pipe, CreateFileW(path, .., OPEN_EXISTING, ..)
OpenStep ==
    /\ conn.pc = "open"
    /\ IF avail = "free"
       THEN /\ Len(wdesc) < MaxDesc
            /\ wdesc' = Append(wdesc,
                               NewDesc(FALSE, FALSE, wpipes[conn.p].path))
            /\ avail' = "taken"
            /\ conn' = [conn EXCEPT !.pc = "mode", !.desc = Len(wdesc) + 1,
                          !.calls = Append(@, Call("CreateFileW",
                                                   Len(wdesc) + 1, 0))]
            /\ UNCHANGED <<wpipes, wlast>>
       ELSE \E err \in {IF avail = "none" THEN ERROR_FILE_NOT_FOUND
                        ELSE OsError.busy} :
            /\ Return(FALSE, 0, err,
                      Append(conn.calls, Call("CreateFileW", 0, err)))
            /\ UNCHANGED <<wpipes, wdesc, avail>>

\* create_pipe, SetNamedPipeHandleState(handle, PIPE_NOWAIT), and the Handle
\* made of the descriptor
ModeStep(m) ==
    /\ conn.pc = "mode"
    /\ \E calls \in {Append(conn.calls,
                            Call("SetNamedPipeHandleState", conn.desc, m))} :
       IF m = 0
       THEN /\ wpipes' = [wpipes EXCEPT ![conn.p].handle =
                              WArc(conn.desc, "Client")]
            /\ conn' = [conn EXCEPT !.pc = "write", !.calls = calls]
            /\ UNCHANGED <<wdesc, wlast, avail>>
       ELSE /\ Return(FALSE, 0, m, calls)
            /\ UNCHANGED <<wpipes, wdesc, avail>>

\* impl Write for Pipe :: write, handle.write(bytes) and the match on its
\* result: WriteFile succeeds only into an instance that is connected
WriteStep(w) ==
    /\ conn.pc = "write"
    /\ w = 0 => avail = "taken"
    /\ \E r \in {HandleWrite(wpipes[conn.p].handle, wdesc, w)} :
       IF r.ok \/ ~RetryOn(r.err) \/ conn.again
       THEN /\ Return(r.ok, r.n, r.err, conn.calls \o r.calls)
            /\ UNCHANGED <<wpipes, wdesc, avail>>
       ELSE \E calls \in {r.calls \o DropHandle(wpipes[conn.p].handle)} :
            /\ wpipes' = [wpipes EXCEPT ![conn.p].handle = WNoHandle]
            /\ wdesc' = Account(wdesc, calls)
            /\ conn' = [conn EXCEPT !.pc = "wait", !.again = TRUE,
                          !.desc = 0, !.calls = @ \o calls]
            /\ UNCHANGED <<wlast, avail>>

WaitNext ==
    \/ \E p \in WPipes, path \in WinPaths :
          WinOpen(p, path)
             /\ UNCHANGED <<posixVars, logVars, regVars, fifoVars, waitVars>>
    \/ \E p \in WPipes, fr \in FlushResults, dr \in DisconnectResults :
          /\ conn.p # p
          /\ WinDrop(p, fr, dr)
          /\ UNCHANGED <<posixVars, logVars, regVars, fifoVars, waitVars>>
    \/ InstanceUp /\ UNCHANGED <<posixVars, logVars, regVars, fifoVars>>
    \/ InstanceDown /\ UNCHANGED <<posixVars, logVars, regVars, fifoVars>>
    \/ \E p \in WPipes :
          WriteEnter(p) /\ UNCHANGED <<posixVars, logVars, regVars, fifoVars>>
    \/ \E e \in WaitResults :
          WaitStep(e) /\ UNCHANGED <<posixVars, logVars, regVars, fifoVars>>
    \/ OpenStep /\ UNCHANGED <<posixVars, logVars, regVars, fifoVars>>
    \/ \E m \in ModeResults :
          ModeStep(m) /\ UNCHANGED <<posixVars, logVars, regVars, fifoVars>>
    \/ \E w \in WriteResults :
          WriteStep(w) /\ UNCHANGED <<posixVars, logVars, regVars, fifoVars>>

\* the thread inside write keeps running: a call that can return does
WriterStep ==
    /\ \/ \E e \in WaitResults : WaitStep(e)
       \/ OpenStep
       \/ \E m \in ModeResults : ModeStep(m)
       \/ \E w \in WriteResults : WriteStep(w)
    /\ UNCHANGED <<posixVars, logVars, regVars, fifoVars>>

SpecWait == Init /\ [][WaitNext]_vars /\ WF_vars(WriterStep)

\* C20: a write on a Pipe without a handle, while the pipe has no instance,
\* returns neither success nor the not-found error; a wait that ends with
\* another error makes the write return that error at once; a write that
\* reaches WriteFile has opened the descriptor, set PIPE_NOWAIT on it and
\* made it the Pipe's Client handle, in that order; and a write does not
\* stay in the wait loop for ever while an instance is free.
C20_WaitsForInstance ==
    /\ [][(conn.pc \in {"wait", "open"} /\ conn'.pc = "idle"
             /\ avail = "none")
          => ~wlast'.ok /\ wlast'.err # ERROR_FILE_NOT_FOUND]_vars
    /\ [][(conn.pc = "wait" /\ conn'.pc = "idle")
          => /\ ~wlast'.ok
             /\ wlast'.calls = Append(conn.calls,
                                  Call("WaitNamedPipeW", 0, wlast'.err))
             /\ UNCHANGED <<wpipes, wdesc>>]_vars
    /\ [][(conn.pc = "mode" /\ conn'.pc = "write")
          => /\ wpipes'[conn.p].handle = WArc(conn.desc, "Client")
             /\ ~wdesc[conn.desc].server
             /\ conn'.calls[Len(conn'.calls)] =
                   Call("SetNamedPipeHandleState", conn.desc, 0)
             /\ conn.calls[Len(conn.calls)] =
                   Call("CreateFileW", conn.desc, 0)]_vars
    /\ (conn.pc = "wait" /\ avail = "free")
          ~> (conn.pc # "wait" \/ avail # "free")


\* ------------------------------------------------------------------------
\* Windows: the handshake of the read path
\* ------------------------------------------------------------------------

\* C21: in a read that makes a listener, ERROR_PIPE_NOT_CONNECTED from
\* ConnectNamedPipe is not returned: the listener is stored in the handle
\* slot and ReadFile is called on it. Any other handshake error is what the
\* read returns; then the handle slot is what it was before the read, ReadFile
\* is not called, and the new listener is closed (once) and stored nowhere.
C21_HandshakeErrorLeavesSlot ==
    wlast.op = "read" =>
        \A i \in CallsOf("ConnectNamedPipe") :
            LET hs == wlast.calls[i].res
                d == wlast.calls[i].d
            IN  /\ hs = ERROR_PIPE_NOT_CONNECTED =>
                    /\ wpipes[wlast.p].handle = WArc(d, "Server")
                    /\ \E j \in CallsOf("ReadFile") :
                          j > i /\ wlast.calls[j].d = d
                    /\ wdesc[d].closes = 0
                /\ hs \notin {0, ERROR_PIPE_NOT_CONNECTED} =>
                    /\ ~wlast.ok /\ wlast.err = hs
                    /\ wpipes[wlast.p].handle = wlast.before
                    /\ CallsOf("ReadFile") = {}
                    /\ \E j \in CallsOf("CloseHandle") :
                          j > i /\ wlast.calls[j].d = d
                    /\ wdesc[d].closes = 1
                    /\ \A q \in WPipes : WRaw(wpipes[q].handle) # d

\* a read with an empty slot whose handshake fails with ERROR_PIPE_CONNECTED:
\* the listener made by this read is closed and the slot is still empty
C21_Witness ==
    /\ wlast.op = "read" /\ ~wlast.ok /\ wlast.err = OsError.connected
    /\ wlast.before.k = "None"
    /\ wpipes[wlast.p].handle.k = "None"
    /\ \E i \in CallsOf("ConnectNamedPipe") :
          /\ wlast.calls[i].res = OsError.connected
          /\ wdesc[wlast.calls[i].d].closes = 1
          /\ wdesc[wlast.calls[i].d].server


\* ------------------------------------------------------------------------
\* POSIX: #[derive(Default)] struct Pipe
\* ------------------------------------------------------------------------

\* <Pipe as Default>::default(): every field at its default, so both handles
\* are None, the path is empty, is_slave is false and delete is None; no
\* system call is made
DefaultPipe(p) ==
    [st |-> "live", handle1 |-> NoHandle, handle2 |-> NoHandle, path |-> "",
     is_slave |-> FALSE, delete |-> "None", master |-> p, gen |-> 0,
     opens |-> 0]

Default(p) ==
    /\ Fresh(p)
    /\ Cardinality({q \in Pipes : pipes[q].master = q}) < MaxMasters
    /\ pipes' = [pipes EXCEPT ![p] = DefaultPipe(p)]
    /\ plast' = [PIdle EXCEPT !.op = "default", !.p = p]
    /\ UNCHANGED <<fs, nIno, fdTable, instIno, buf>>

\* the public interface of the POSIX Pipe: every call of Next, and default
DefaultNext ==
    \/ Next
    \/ \E p \in Pipes : Default(p) /\ UNCHANGED <<logVars, winVars, sideVars>>

SpecDefault == Init /\ [][DefaultNext]_vars

\* the calls that unwrap handle1
Unwraps == {"read", "write", "flush", "close"}

\* C22: whenever read, write, flush or close is called on a Pipe, its handle1
\* is present (not None), and read, write and flush do not panic.
C22_Handle1Present ==
    [][(plast' # plast /\ plast'.op \in Unwraps)
          => /\ pipes[plast'.p].handle1.k # "None"
             /\ plast'.op # "close" => plast'.err # "panic"]_vars


\* ------------------------------------------------------------------------
\* Windows: Pipes that are never cloned
\* ------------------------------------------------------------------------

\* the calls of WinNext without clone and close: each Pipe is made by open
\* or with_name, used for reads, writes and flushes, and dropped
WinSingleNext ==
    \/ \E p \in WPipes, path \in WinPaths :
          WinOpen(p, path) /\ UNCHANGED <<posixVars, logVars, sideVars>>
    \/ \E p \in WPipes, name \in WinNames :
          WinWithName(p, name) /\ UNCHANGED <<posixVars, logVars, sideVars>>
    \/ \E p \in WPipes, fr \in FlushResults, dr \in DisconnectResults :
          WinDrop(p, fr, dr) /\ UNCHANGED <<posixVars, logVars, sideVars>>
    \/ \E p \in WPipes, a \in WriteAnswers :
          WinWrite(p, a[1], a[2], a[3], a[4])
             /\ UNCHANGED <<posixVars, logVars, sideVars>>
    \/ \E p \in WPipes, c \in ConnectResults, f \in FlushResults :
          WinFlush(p, c, f) /\ UNCHANGED <<posixVars, logVars, sideVars>>
    \/ \E p \in WPipes, l \in ListenResults, hs \in HandshakeResults,
          r \in ReadResults :
          WinRead(p, l, hs, r) /\ UNCHANGED <<posixVars, logVars, sideVars>>

SpecWinSingle == Init /\ [][WinSingleNext]_vars

\* the descriptors the OS handed out that no CloseHandle was called on
OpenDescs == {d \in DOMAIN wdesc : wdesc[d].closes = 0}

\* C23: with no Pipe cloned, every descriptor that is still open is the one
\* in the handle slot of a live Pipe (so a Pipe holds at most one), and no
\* descriptor is closed twice.
C23_NoDescriptorLeaked ==
    /\ \A d \in OpenDescs :
          \E p \in WPipes : WLive(p) /\ WRaw(wpipes[p].handle) = d
    /\ \A d \in DOMAIN wdesc : wdesc[d].closes <= 1

====
